---- MODULE Spec2Model ----
(***************************************************************************)
(* Model of the layered clipping subsystem (namespace Clipping):           *)
(*   - Clipping.Groups: the group flags and their names,                   *)
(*   - the layer algebra: ofScript, ofBundle, toBundle, remap, merge,      *)
(*     filter, areEqual, isEmpty,                                          *)
(*   - getClip: compilation of clip descriptors into the clip objects.     *)
(* and of the behavior class PluginBehavior.simpleCommandHandler builds.    *)
(* Each part has its own specification (SpecGroups, Spec, SpecClip,        *)
(* SpecQuery for the queries areEqual and isEmpty, SpecBehavior) over its  *)
(* own variables; the variables of the other parts stay as constructed.    *)
(***************************************************************************)
EXTENDS Integers, Sequences, FiniteSets, TLC

VARIABLES
    gOp,        \* Groups: the last operation ("init", "toNames", "fromNames")
    gNames,     \* Groups: the names list last produced by toNames / passed to fromNames
    gSrc,       \* Groups: {x} when gNames is toNames(x), {} when a caller wrote gNames
    gOut,       \* Groups: the outcome of the last fromNames call
    heap,       \* getClip: the array sets in memory, by reference; 0 is that of Clipping.Empty.objects
    cRes,       \* getClip: the clip the caller holds (Clipping.Empty's, then the last one returned)
    cArg,       \* getClip: how the last call was made, and the clip passed to it
    cProps,     \* getClip: the props of the last call
    cOp,        \* getClip: "init" or "getClip"
    cCalls,     \* getClip: the number of calls made
    lCur,       \* layers: the aggregate the caller holds
    lOp,        \* layers: the last operation
    lIn,        \* layers: the aggregate the last operation was applied to
    lArg,       \* layers: the structure passed to the last remap, filter or round trip, or "none"
    lBundle,    \* layers: the bundle layers last passed to ofBundle or returned by toBundle
    qOp,        \* queries: the last query ("init", "areEqual", "isEmpty")
    qA,         \* queries: the first aggregate passed to the last query
    qB,         \* queries: the second aggregate passed to areEqual
    qRes,       \* queries: what the last query returned
    bSub,       \* command handler: the field sub of the behavior instance
    bActive,    \* command handler: the subscriptions of the instance that are active
    bCreated,   \* command handler: the number of subscriptions register() has created
    bOp         \* command handler: the last call ("init", "register", "unregister")

gvars == <<gOp, gNames, gSrc, gOut>>

cvars == <<heap, cRes, cArg, cProps, cOp, cCalls>>

lvars == <<lCur, lOp, lIn, lArg, lBundle>>

qvars == <<qOp, qA, qB, qRes>>

bvars == <<bSub, bActive, bCreated, bOp>>

vars == <<gvars, cvars, lvars, qvars, bvars>>

(***************************************************************************)
(* Bounds of the model.                                                    *)
(***************************************************************************)
MaxNames == 3       \* longest names list passed to Groups.fromNames
MaxDescr == 6       \* longest descriptor list passed to getClip
MaxCalls == 2       \* number of successive getClip calls
MaxElem == 2        \* number of structural elements of the root structure
MaxLayers == 2      \* longest list of script or bundle layers
MaxRegister == 6    \* number of register() calls on the behavior instance

(***************************************************************************)
(* JavaScript values and operators used by the code.                       *)
(***************************************************************************)
\* The value `undefined` (what a function returns when it falls off its end).
Undefined == -1

RECURSIVE BitAnd(_, _)
\* a & b on non-negative integers
BitAnd(a, b) ==
    IF a = 0 \/ b = 0 THEN 0
    ELSE (a % 2) * (b % 2) + 2 * BitAnd(a \div 2, b \div 2)

\* ToInt32 of an operand of `|`: undefined -> NaN -> 0
ToInt32(v) == IF v = Undefined THEN 0 ELSE v

\* a | b, the operands converted with ToInt32
BitOr(a, b) == ToInt32(a) + ToInt32(b) - BitAnd(ToInt32(a), ToInt32(b))

(***************************************************************************)
(* Clipping.Groups                                                         *)
(***************************************************************************)
FlagNone  == 0
FlagOne   == 1
FlagTwo   == 2
FlagThree == 4
FlagFour  == 8
FlagFive  == 16
FlagSix   == 32

\* every bitwise-OR of a subset of the six flags
AllGroups == 0..63

\* Groups.Names: the table of recognised names
Names == [one |-> FlagOne, two |-> FlagTwo, three |-> FlagThree,
          four |-> FlagFour, five |-> FlagFive, six |-> FlagSix]

\* Groups.isName: name in Names
isName(name) == name \in DOMAIN Names

\* Groups.is = BitFlags.has: (flags & flag) !== 0
is(g, f) == BitAnd(g, f) # 0

\* a fromName whose switch falls into the first case for an unknown name
fromNameFallsToOne(name) ==
    CASE name = "two"   -> FlagTwo
      [] name = "three" -> FlagThree
      [] name = "four"  -> FlagFour
      [] name = "five"  -> FlagFive
      [] name = "six"   -> FlagSix
      [] OTHER          -> FlagOne

\* Groups.fromName: a switch over the six names with no default case, so an
\* unknown name falls off the end of the function
fromName(name) ==
    CASE name = "one"   -> FlagOne
      [] name = "two"   -> FlagTwo
      [] name = "three" -> FlagThree
      [] name = "four"  -> FlagFour
      [] name = "five"  -> FlagFive
      [] name = "six"   -> FlagSix
      [] OTHER          -> Undefined

RECURSIVE fromNamesLoop(_, _, _)
\* the loop of fromNames from index i (1-based) with accumulator f
fromNamesLoop(names, i, f) ==
    IF i > Len(names) THEN f
    ELSE fromNamesLoop(names, i + 1, BitOr(f, fromName(names[i])))

\* Groups.fromNames: the outcome of the call; the code has no throw
\* statement, so every call returns
fromNames(names) ==
    [kind |-> "return", value |-> fromNamesLoop(names, 1, FlagNone)]

\* a toNames that tests Flag.Five twice and never Flag.Six
toNamesSkipsSix(groups) ==
    (IF is(groups, FlagOne)   THEN <<"one">>   ELSE <<>>) \o
    (IF is(groups, FlagTwo)   THEN <<"two">>   ELSE <<>>) \o
    (IF is(groups, FlagThree) THEN <<"three">> ELSE <<>>) \o
    (IF is(groups, FlagFour)  THEN <<"four">>  ELSE <<>>) \o
    (IF is(groups, FlagFive)  THEN <<"five">>  ELSE <<>>) \o
    (IF is(groups, FlagFive)  THEN <<"six">>   ELSE <<>>)

\* Groups.toNames: the names of the set flags, in enumeration order
toNames(groups) ==
    (IF is(groups, FlagOne)   THEN <<"one">>   ELSE <<>>) \o
    (IF is(groups, FlagTwo)   THEN <<"two">>   ELSE <<>>) \o
    (IF is(groups, FlagThree) THEN <<"three">> ELSE <<>>) \o
    (IF is(groups, FlagFour)  THEN <<"four">>  ELSE <<>>) \o
    (IF is(groups, FlagFive)  THEN <<"five">>  ELSE <<>>) \o
    (IF is(groups, FlagSix)   THEN <<"six">>   ELSE <<>>)

\* the names a caller writes into a list: recognised ones and one that is not
NameTokens == {"one", "two", "six", "seven"}

\* all sequences over S of length at most n
SeqsUpTo(S, n) == UNION {[1..k -> S] : k \in 0..n}

NoOutcome == [kind |-> "none", value |-> 0]

GroupsInit ==
    /\ gOp = "init"
    /\ gNames = <<>>
    /\ gSrc = {}
    /\ gOut = NoOutcome

\* a call of Groups.toNames(x); its result is kept as the current names list
ToNames ==
    \E x \in AllGroups :
        /\ gOp' = "toNames"
        /\ gNames' = toNames(x)
        /\ gSrc' = {x}
        /\ gOut' = NoOutcome
        /\ UNCHANGED <<cvars, lvars, qvars, bvars>>

\* a call of Groups.fromNames on the names list toNames returned
FromNamesOfToNames ==
    /\ gOp = "toNames"
    /\ gOp' = "fromNames"
    /\ gOut' = fromNames(gNames)
    /\ UNCHANGED <<gNames, gSrc>>
    /\ UNCHANGED <<cvars, lvars, qvars, bvars>>

\* a call of Groups.fromNames on a list the caller wrote
FromNames ==
    \E names \in SeqsUpTo(NameTokens, MaxNames) :
        /\ gOp' = "fromNames"
        /\ gNames' = names
        /\ gSrc' = {}
        /\ gOut' = fromNames(names)
        /\ UNCHANGED <<cvars, lvars, qvars, bvars>>

GroupsNext == ToNames \/ FromNamesOfToNames \/ FromNames

(***************************************************************************)
(* Clip objects and getClip                                                *)
(***************************************************************************)
\* the number of slots createClipObjects allocates
NMax == 5

\* Clipping.Type: clip object types
Type == [none |-> 0, plane |-> 1, sphere |-> 2, cube |-> 3, cylinder |-> 4,
         infiniteCone |-> 5]

\* (new Array(n)).fill(v)
ArrayFill(n, v) == [i \in 1..n |-> v]

\* a createClipObjects that fills type with Type.none
createClipObjectsTypeNone ==
    [count    |-> 0,
     type     |-> ArrayFill(NMax, 0),
     invert   |-> ArrayFill(NMax, FALSE),
     position |-> ArrayFill(NMax * 3, 0),
     rotation |-> ArrayFill(NMax * 4, 0),
     scale    |-> ArrayFill(NMax * 3, 1)]

\* createClipObjects: count 0 and five freshly allocated arrays
createClipObjects ==
    [count    |-> 0,
     type     |-> ArrayFill(NMax, 1),
     invert   |-> ArrayFill(NMax, FALSE),
     position |-> ArrayFill(NMax * 3, 0),
     rotation |-> ArrayFill(NMax * 4, 0),
     scale    |-> ArrayFill(NMax * 3, 1)]

\* arr[idx] = v on a JavaScript array (idx 0-based): an index past the end
\* grows the array, the entries skipped being undefined
ArrayStore(arr, idx, v) ==
    IF idx < Len(arr) THEN [arr EXCEPT ![idx + 1] = v]
    ELSE arr \o [k \in 1..(idx - Len(arr)) |-> Undefined] \o <<v>>

\* Vec3.toArray(v, out, offset)
Vec3toArray(v, out, offset) ==
    ArrayStore(ArrayStore(ArrayStore(out, offset, v[1]), offset + 1, v[2]),
               offset + 2, v[3])

\* Quat.toArray(q, out, offset)
QuatToArray(q, out, offset) ==
    ArrayStore(ArrayStore(ArrayStore(ArrayStore(out, offset, q[1]),
               offset + 1, q[2]), offset + 2, q[3]), offset + 3, q[4])

\* Vec3.fromArray(v, array, offset) and Quat.fromArray(q, array, offset)
Vec3fromArray(array, offset) ==
    <<array[offset + 1], array[offset + 2], array[offset + 3]>>

QuatFromArray(array, offset) ==
    <<array[offset + 1], array[offset + 2], array[offset + 3], array[offset + 4]>>

\* degToRad: the angle in radians, written in units of pi/2 (the model's
\* angles are multiples of 90 degrees)
degToRad(deg) == deg \div 90

\* sin(rad / 2) and cos(rad / 2) for rad a multiple of pi, in exact arithmetic
SinHalf(rad) == CASE rad = 0 -> 0 [] rad = 2 -> 1 [] rad = -2 -> -1

CosHalf(rad) == CASE rad = 0 -> 1 [] rad = 2 -> 0 [] rad = -2 -> 0

\* Quat.setAxisAngle(out, axis, rad)
setAxisAngle(axis, rad) ==
    <<SinHalf(rad) * axis[1], SinHalf(rad) * axis[2], SinHalf(rad) * axis[3],
      CosHalf(rad)>>

\* a loop body that stores invert only when it is set
getClipSlotSkipsInvert(p, i, o) ==
    [count    |-> o.count,
     type     |-> ArrayStore(o.type, i, Type[p.type]),
     invert   |-> IF p.invert THEN ArrayStore(o.invert, i, p.invert) ELSE o.invert,
     position |-> Vec3toArray(p.position, o.position, i * 3),
     rotation |-> QuatToArray(setAxisAngle(p.rotation.axis, degToRad(p.rotation.angle)),
                              o.rotation, i * 4),
     scale    |-> Vec3toArray(p.scale, o.scale, i * 3)]

\* a loop body that stores the scale at the offset of slot 0
getClipSlotScaleAtZero(p, i, o) ==
    [count    |-> o.count,
     type     |-> ArrayStore(o.type, i, Type[p.type]),
     invert   |-> ArrayStore(o.invert, i, p.invert),
     position |-> Vec3toArray(p.position, o.position, i * 3),
     rotation |-> QuatToArray(setAxisAngle(p.rotation.axis, degToRad(p.rotation.angle)),
                              o.rotation, i * 4),
     scale    |-> Vec3toArray(p.scale, o.scale, 0)]

\* the body of getClip's loop for descriptor p at index i (0-based), on the
\* arrays of o
getClipSlot(p, i, o) ==
    [count    |-> o.count,
     type     |-> ArrayStore(o.type, i, Type[p.type]),
     invert   |-> ArrayStore(o.invert, i, p.invert),
     position |-> Vec3toArray(p.position, o.position, i * 3),
     rotation |-> QuatToArray(setAxisAngle(p.rotation.axis, degToRad(p.rotation.angle)),
                              o.rotation, i * 4),
     scale    |-> Vec3toArray(p.scale, o.scale, i * 3)]

RECURSIVE getClipLoop(_, _, _)
\* getClip's loop from index i (0-based)
getClipLoop(objects, i, o) ==
    IF i >= Len(objects) THEN o
    ELSE getClipLoop(objects, i + 1, getClipSlot(objects[i + 1], i, o))

\* a getClip that stops at the allocated capacity
getClipTruncates(props, o) ==
    [variant |-> props.variant,
     objects |-> LET n == IF Len(props.objects) < NMax
                              THEN Len(props.objects) ELSE NMax
                 IN  [getClipLoop([i \in 1..n |-> props.objects[i]], 0, o)
                        EXCEPT !.count = n]]

\* Clipping.getClip(props, clip), o being the objects whose arrays are written:
\* clip.objects when a clip is passed, createClipObjects() otherwise.  The
\* result's objects is a new record with the written arrays.
getClip(props, o) ==
    [variant |-> props.variant,
     objects |-> [getClipLoop(props.objects, 0, o)
                    EXCEPT !.count = Len(props.objects)]]

(***************************************************************************)
(* The selection substrate: structures, StructureElement.Loci, bundles     *)
(* and scripts.  A structure is a set of elements and has a root; a loci   *)
(* is a set of elements bound to a structure.                              *)
(***************************************************************************)
Elements == 1..MaxElem

\* a root structure, two substructures of it, and another root structure (a
\* later revision, without the first element)
StructureNames == {"root", "subA", "subB", "rev"}

\* the elements of a structure
StructElems(s) ==
    CASE s = "root" -> Elements
      [] s = "subA" -> 1..(MaxElem - 1)
      [] s = "subB" -> 2..MaxElem
      [] s = "rev"  -> 2..MaxElem

\* structure.root
StructRoot(s) == IF s = "rev" THEN "rev" ELSE "root"

\* StructureElement.Loci.none(structure)
LociNone(structure) == [structure |-> structure, elements |-> {}]

\* StructureElement.Loci.isEmpty
LociIsEmpty(loci) == loci.elements = {}

\* StructureElement.Loci.union(xs, ys)
LociUnion(xs, ys) ==
    [structure |-> xs.structure, elements |-> xs.elements \cup ys.elements]

\* StructureElement.Loci.subtract(xs, ys)
LociSubtract(xs, ys) ==
    [structure |-> xs.structure, elements |-> xs.elements \ ys.elements]

\* StructureElement.Loci.remap(loci, structure): the same elements, as far as
\* the structure has them, bound to that structure
LociRemap(loci, structure) ==
    [structure |-> structure, elements |-> loci.elements \cap StructElems(structure)]

\* Loci.areEqual: the same structure and the same elements
LociAreEqual(a, b) == a.structure = b.structure /\ a.elements = b.elements

\* StructureElement.Bundle.fromLoci: a structure-independent reference to
\* the elements
BundleFromLoci(loci) == [elements |-> loci.elements]

\* StructureElement.Bundle.toLoci(bundle, structure)
BundleToLoci(bundle, structure) ==
    [structure |-> structure, elements |-> bundle.elements \cap StructElems(structure)]

\* Script.toLoci(script, structure): a script is the set of elements its
\* query selects
ScriptToLoci(script, structure) ==
    [structure |-> structure, elements |-> script \cap StructElems(structure)]

\* Vec3.equals and Quat.equals
Vec3equals(a, b) == a = b

QuatEquals(a, b) == a = b

(***************************************************************************)
(* A JavaScript Map<Groups, Loci>: its entries in insertion order          *)
(***************************************************************************)
MapHas(map, key) == \E k \in 1..Len(map) : map[k].groups = key

MapGet(map, key) == map[CHOOSE k \in 1..Len(map) : map[k].groups = key].loci

\* a set that adds an entry even when the key is present
MapSetAlwaysAppends(map, key, value) ==
    Append(map, [groups |-> key, loci |-> value])

\* map.set(key, value): a present key keeps its place
MapSet(map, key, value) ==
    IF MapHas(map, key)
    THEN [k \in 1..Len(map) |->
            IF map[k].groups = key THEN [groups |-> key, loci |-> value] ELSE map[k]]
    ELSE Append(map, [groups |-> key, loci |-> value])

(***************************************************************************)
(* The layer algebra                                                       *)
(***************************************************************************)
\* Clipping.Empty
Empty == [layers |-> <<>>, variant |-> "pixel", objects |-> createClipObjects]

\* an areEqual that compares the arrays whole, whatever count is
areEqualAllSlots(cA, cB) ==
    /\ Len(cA.layers) = Len(cB.layers)
    /\ \A i \in 1..Len(cA.layers) :
          /\ cA.layers[i].groups = cB.layers[i].groups
          /\ LociAreEqual(cA.layers[i].loci, cB.layers[i].loci)
    /\ cA.variant = cB.variant
    /\ cA.objects = cB.objects

\* Clipping.areEqual
areEqual(cA, cB) ==
    /\ Len(cA.layers) = Len(cB.layers)
    /\ \A i \in 1..Len(cA.layers) :
          /\ cA.layers[i].groups = cB.layers[i].groups
          /\ LociAreEqual(cA.layers[i].loci, cB.layers[i].loci)
    /\ cA.variant = cB.variant
    /\ cA.objects.count = cB.objects.count
    /\ \A i \in 0..(cA.objects.count - 1) :
          /\ cA.objects.invert[i + 1] = cB.objects.invert[i + 1]
          /\ cA.objects.type[i + 1] = cB.objects.type[i + 1]
          /\ Vec3equals(Vec3fromArray(cA.objects.position, i * 3),
                        Vec3fromArray(cB.objects.position, i * 3))
          /\ Vec3equals(Vec3fromArray(cA.objects.scale, i * 3),
                        Vec3fromArray(cB.objects.scale, i * 3))
          /\ QuatEquals(QuatFromArray(cA.objects.rotation, i * 4),
                        QuatFromArray(cB.objects.rotation, i * 4))

\* an isEmpty that also asks for no clip objects
isEmptyNoObjectsEither(clipping) ==
    Len(clipping.layers) = 0 /\ clipping.objects.count = 0

\* Clipping.isEmpty
isEmpty(clipping) == Len(clipping.layers) = 0

\* the layers whose loci is not empty, in order
RECURSIVE NonEmptyLayers(_)
NonEmptyLayers(layers) ==
    IF layers = <<>> THEN <<>>
    ELSE (IF LociIsEmpty(Head(layers).loci) THEN <<>> ELSE <<Head(layers)>>)
         \o NonEmptyLayers(Tail(layers))

\* a remap that pushes every layer
remapKeepsEmpty(clipping, structure) ==
    [layers  |-> [i \in 1..Len(clipping.layers) |->
                    [loci   |-> LociRemap(clipping.layers[i].loci, structure),
                     groups |-> clipping.layers[i].groups]],
     variant |-> clipping.variant,
     objects |-> clipping.objects]

\* a remap that puts each surviving layer at the front of the list
remapUnshift(clipping, structure) ==
    LET kept == NonEmptyLayers([i \in 1..Len(clipping.layers) |->
                    [loci   |-> LociRemap(clipping.layers[i].loci, structure),
                     groups |-> clipping.layers[i].groups]])
    IN  [layers  |-> [k \in 1..Len(kept) |-> kept[Len(kept) + 1 - k]],
         variant |-> clipping.variant,
         objects |-> clipping.objects]

\* Clipping.remap
remap(clipping, structure) ==
    [layers  |-> NonEmptyLayers([i \in 1..Len(clipping.layers) |->
                    [loci   |-> LociRemap(clipping.layers[i].loci, structure),
                     groups |-> clipping.layers[i].groups]]),
     variant |-> clipping.variant,
     objects |-> clipping.objects]

\* the layer merge's loop reads at counter i (0-based) when it runs from the start
mergeIndexFromStart(il, i) == i + 1

\* the layer merge's loop reads at counter i (0-based): layers[il - i - 1],
\* as a 1-based index
mergeIndex(il, i) == il - i

\* a loop body that sets the map entry whether or not the loci is empty
mergeStepNoEmptyCheck(layer, st) ==
    LET loci == LociSubtract(layer.loci, st.shadowed) IN
    [shadowed |-> LociUnion(loci, st.shadowed),
     map      |-> MapSet(st.map, layer.groups,
                         IF MapHas(st.map, layer.groups)
                         THEN LociUnion(loci, MapGet(st.map, layer.groups))
                         ELSE loci)]

\* a loop body that does not subtract the shadowed selection
mergeStepNoSubtract(layer, st) ==
    LET loci == layer.loci IN
    [shadowed |-> LociUnion(loci, st.shadowed),
     map      |-> IF ~LociIsEmpty(loci)
                  THEN MapSet(st.map, layer.groups,
                              IF MapHas(st.map, layer.groups)
                              THEN LociUnion(loci, MapGet(st.map, layer.groups))
                              ELSE loci)
                  ELSE st.map]

\* a loop body that never adds to the shadowed selection
mergeStepKeepsShadow(layer, st) ==
    LET loci == LociSubtract(layer.loci, st.shadowed) IN
    [shadowed |-> st.shadowed,
     map      |-> IF ~LociIsEmpty(loci)
                  THEN MapSet(st.map, layer.groups,
                              IF MapHas(st.map, layer.groups)
                              THEN LociUnion(loci, MapGet(st.map, layer.groups))
                              ELSE loci)
                  ELSE st.map]

\* a loop body that sets the map entry without the selection the key has
mergeStepOverwrites(layer, st) ==
    LET loci == LociSubtract(layer.loci, st.shadowed) IN
    [shadowed |-> LociUnion(loci, st.shadowed),
     map      |-> IF ~LociIsEmpty(loci)
                  THEN MapSet(st.map, layer.groups, loci)
                  ELSE st.map]

\* the body of merge's loop for one layer, on the state st = (shadowed, map)
mergeStep(layer, st) ==
    LET loci == LociSubtract(layer.loci, st.shadowed) IN
    [shadowed |-> LociUnion(loci, st.shadowed),
     map      |-> IF ~LociIsEmpty(loci)
                  THEN MapSet(st.map, layer.groups,
                              IF MapHas(st.map, layer.groups)
                              THEN LociUnion(loci, MapGet(st.map, layer.groups))
                              ELSE loci)
                  ELSE st.map]

RECURSIVE mergeLoop(_, _, _)
\* merge's loop from counter i (0-based)
mergeLoop(layers, i, st) ==
    IF i >= Len(layers) THEN st
    ELSE mergeLoop(layers, i + 1,
                   mergeStep(layers[mergeIndex(Len(layers), i)], st))

\* a merge that returns its layers with newly created clip objects
mergeFreshObjects(clipping) ==
    IF isEmpty(clipping) THEN clipping
    ELSE LET structure == clipping.layers[1].loci.structure
             st == mergeLoop(clipping.layers, 0,
                             [shadowed |-> LociNone(structure), map |-> <<>>])
         IN  [layers  |-> [k \in 1..Len(st.map) |->
                             [loci |-> st.map[k].loci, groups |-> st.map[k].groups]],
              variant |-> clipping.variant,
              objects |-> createClipObjects]

\* a merge that emits the map entries last to first
mergeEmitsReversed(clipping) ==
    IF isEmpty(clipping) THEN clipping
    ELSE LET structure == clipping.layers[1].loci.structure
             st == mergeLoop(clipping.layers, 0,
                             [shadowed |-> LociNone(structure), map |-> <<>>])
             n  == Len(st.map)
         IN  [layers  |-> [k \in 1..n |->
                             [loci |-> st.map[n + 1 - k].loci,
                              groups |-> st.map[n + 1 - k].groups]],
              variant |-> clipping.variant,
              objects |-> clipping.objects]

\* Clipping.merge
merge(clipping) ==
    IF isEmpty(clipping) THEN clipping
    ELSE LET structure == clipping.layers[1].loci.structure
             st == mergeLoop(clipping.layers, 0,
                             [shadowed |-> LociNone(structure), map |-> <<>>])
         IN  [layers  |-> [k \in 1..Len(st.map) |->
                             [loci |-> st.map[k].loci, groups |-> st.map[k].groups]],
              variant |-> clipping.variant,
              objects |-> clipping.objects]

\* a filter that does not map back to the structure of the clipping
filterNoMapBack(clipping, filterStructure) ==
    IF isEmpty(clipping) THEN clipping
    ELSE [layers  |-> NonEmptyLayers([i \in 1..Len(clipping.layers) |->
                         [loci   |-> LociRemap(clipping.layers[i].loci, filterStructure),
                          groups |-> clipping.layers[i].groups]]),
          variant |-> clipping.variant,
          objects |-> clipping.objects]

\* Clipping.filter
filter(clipping, filterStructure) ==
    IF isEmpty(clipping) THEN clipping
    ELSE LET structure == clipping.layers[1].loci.structure IN
         [layers  |-> NonEmptyLayers([i \in 1..Len(clipping.layers) |->
                         [loci   |-> LociRemap(LociRemap(clipping.layers[i].loci,
                                                         filterStructure), structure),
                          groups |-> clipping.layers[i].groups]]),
          variant |-> clipping.variant,
          objects |-> clipping.objects]

\* Clipping.ofScript
ofScript(scriptLayers, structure, clip) ==
    [layers  |-> NonEmptyLayers([i \in 1..Len(scriptLayers) |->
                    [loci   |-> ScriptToLoci(scriptLayers[i].script, structure),
                     groups |-> scriptLayers[i].groups]]),
     variant |-> clip.variant,
     objects |-> clip.objects]

\* an ofBundle that resolves the bundles against the structure passed
ofBundleNoRoot(bundleLayers, structure, clip) ==
    [layers  |-> [i \in 1..Len(bundleLayers) |->
                    [loci   |-> BundleToLoci(bundleLayers[i].bundle, structure),
                     groups |-> bundleLayers[i].groups]],
     variant |-> clip.variant,
     objects |-> clip.objects]

\* an ofBundle that skips empty selections, as ofScript does
ofBundleDropsEmpty(bundleLayers, structure, clip) ==
    [layers  |-> NonEmptyLayers([i \in 1..Len(bundleLayers) |->
                    [loci   |-> BundleToLoci(bundleLayers[i].bundle, StructRoot(structure)),
                     groups |-> bundleLayers[i].groups]]),
     variant |-> clip.variant,
     objects |-> clip.objects]

\* Clipping.ofBundle
ofBundle(bundleLayers, structure, clip) ==
    [layers  |-> [i \in 1..Len(bundleLayers) |->
                    [loci   |-> BundleToLoci(bundleLayers[i].bundle, StructRoot(structure)),
                     groups |-> bundleLayers[i].groups]],
     variant |-> clip.variant,
     objects |-> clip.objects]

\* Clipping.toBundle
toBundle(clipping) ==
    [layers |-> [i \in 1..Len(clipping.layers) |->
                    [bundle |-> BundleFromLoci(clipping.layers[i].loci),
                     groups |-> clipping.layers[i].groups]]]

(***************************************************************************)
(* getClip: the calls a caller makes                                       *)
(***************************************************************************)
\* the descriptor the parameter definitions give by default (Clipping.Params)
PlaneDescriptor ==
    [type |-> "plane", invert |-> FALSE, position |-> <<0, 0, 0>>,
     rotation |-> [axis |-> <<1, 0, 0>>, angle |-> 0], scale |-> <<1, 1, 1>>]

\* a descriptor that differs from the default in every field
SphereDescriptor ==
    [type |-> "sphere", invert |-> TRUE, position |-> <<1, 2, 0>>,
     rotation |-> [axis |-> <<0, 1, 0>>, angle |-> 180], scale |-> <<2, 1, 2>>]

Variants == {"instance", "pixel"}

\* the descriptor lists passed to getClip: of every length up to MaxDescr,
\* all planes, all spheres, or alternating
DescriptorLists ==
    {[i \in 1..n |-> IF i % 2 = 1 THEN d[1] ELSE d[2]] :
        n \in 0..MaxDescr,
        d \in {<<PlaneDescriptor, PlaneDescriptor>>,
               <<SphereDescriptor, SphereDescriptor>>,
               <<PlaneDescriptor, SphereDescriptor>>}}

PropsChoices == [variant : Variants, objects : DescriptorLists]

\* the five arrays of an objects record (what two clips share)
ArraysOf(o) ==
    [type |-> o.type, invert |-> o.invert, position |-> o.position,
     rotation |-> o.rotation, scale |-> o.scale]

\* the objects record of a held clip: its own count, the arrays it refers to
ObjectsOf(clip, h) ==
    [count |-> clip.count, type |-> h[clip.ref].type, invert |-> h[clip.ref].invert,
     position |-> h[clip.ref].position, rotation |-> h[clip.ref].rotation,
     scale |-> h[clip.ref].scale]

\* Clipping.Empty as a clip: variant 'pixel', objects: createClipObjects()
EmptyRef == 0
FreshRef == 1

NoClip == [variant |-> "none", count |-> 0, ref |-> EmptyRef]

ClipInit ==
    /\ heap = (EmptyRef :> ArraysOf(createClipObjects))
    /\ cRes = [variant |-> "pixel", count |-> createClipObjects.count, ref |-> EmptyRef]
    /\ cArg = [mode |-> "none", clip |-> NoClip, len |-> 0]
    /\ cProps = [variant |-> "pixel", objects |-> <<>>]
    /\ cOp = "init"
    /\ cCalls = 0

\* getClip(props): no clip passed, the arrays are allocated by the call
GetClipFresh ==
    /\ cCalls < MaxCalls
    /\ \E props \in PropsChoices :
        LET r == getClip(props, createClipObjects) IN
        /\ heap' = (FreshRef :> ArraysOf(r.objects)) @@ heap
        /\ cRes' = [variant |-> r.variant, count |-> r.objects.count, ref |-> FreshRef]
        /\ cArg' = [mode |-> "fresh", clip |-> NoClip, len |-> NMax]
        /\ cProps' = props
        /\ cOp' = "getClip"
        /\ cCalls' = cCalls + 1
        /\ UNCHANGED <<gvars, lvars, qvars, bvars>>

\* getClip(props, clip) with the clip the caller holds: the call writes into
\* the arrays of clip.objects and returns a record that refers to them
GetClipReuse ==
    /\ cCalls < MaxCalls
    /\ \E props \in PropsChoices :
        LET r == getClip(props, ObjectsOf(cRes, heap)) IN
        /\ heap' = [heap EXCEPT ![cRes.ref] = ArraysOf(r.objects)]
        /\ cRes' = [variant |-> r.variant, count |-> r.objects.count, ref |-> cRes.ref]
        /\ cArg' = [mode |-> "reuse", clip |-> cRes, len |-> Len(heap[cRes.ref].type)]
        /\ cProps' = props
        /\ cOp' = "getClip"
        /\ cCalls' = cCalls + 1
        /\ UNCHANGED <<gvars, lvars, qvars, bvars>>

ClipNext == GetClipFresh \/ GetClipReuse

(***************************************************************************)
(* The layer algebra: the calls a caller makes                             *)
(***************************************************************************)
\* the groups values layers are given
GroupChoices == {FlagOne, BitOr(FlagOne, FlagTwo)}

\* the clips ofScript and ofBundle copy variant and objects from: that of
\* Clipping.Empty, and one sphere compiled by getClip
LayerClips ==
    {[variant |-> Empty.variant, objects |-> Empty.objects],
     getClip([variant |-> "instance", objects |-> <<SphereDescriptor>>],
             createClipObjects)}

ScriptLayers == [script : SUBSET Elements, groups : GroupChoices]

BundleLayers == [bundle : [elements : SUBSET Elements], groups : GroupChoices]

LayersInit ==
    /\ lCur = Empty
    /\ lOp = "init"
    /\ lIn = Empty
    /\ lArg = "none"
    /\ lBundle = <<>>

\* the caller builds its aggregate with Clipping.ofScript.  (The result does
\* not depend on the aggregate held before, so the call is taken first.)
OfScript ==
    /\ lOp = "init"
    /\ \E scriptLayers \in SeqsUpTo(ScriptLayers, MaxLayers),
          structure \in StructureNames, clip \in LayerClips :
        /\ lCur' = ofScript(scriptLayers, structure, clip)
        /\ lOp' = "ofScript"
        /\ lIn' = Empty
        /\ lArg' = "none"
        /\ lBundle' = <<>>
        /\ UNCHANGED <<gvars, cvars, qvars, bvars>>

\* the caller builds its aggregate with Clipping.ofBundle from bundles it has
OfBundle ==
    /\ lOp = "init"
    /\ \E bundleLayers \in SeqsUpTo(BundleLayers, MaxLayers),
          structure \in StructureNames, clip \in LayerClips :
        /\ lCur' = ofBundle(bundleLayers, structure, clip)
        /\ lOp' = "ofBundle"
        /\ lIn' = Empty
        /\ lArg' = structure
        /\ lBundle' = bundleLayers
        /\ UNCHANGED <<gvars, cvars, qvars, bvars>>

\* Clipping.toBundle(clipping); the aggregate is kept
ToBundle ==
    /\ lBundle' = toBundle(lCur).layers
    /\ lOp' = "toBundle"
    /\ lIn' = lCur
    /\ lArg' = "none"
    /\ UNCHANGED lCur
    /\ UNCHANGED <<gvars, cvars, qvars, bvars>>

\* Clipping.ofBundle(toBundle(c).layers, structure, c)
OfBundleOfToBundle ==
    /\ lOp = "toBundle"
    /\ \E structure \in StructureNames :
        /\ lCur' = ofBundle(lBundle, structure,
                                [variant |-> lCur.variant,
                                 objects |-> lCur.objects])
        /\ lOp' = "roundTrip"
        /\ lIn' = lCur
        /\ lArg' = structure
        /\ UNCHANGED lBundle
        /\ UNCHANGED <<gvars, cvars, qvars, bvars>>

Remap ==
    \E structure \in StructureNames :
        /\ lCur' = remap(lCur, structure)
        /\ lOp' = "remap"
        /\ lIn' = lCur
        /\ lArg' = structure
        /\ lBundle' = <<>>
        /\ UNCHANGED <<gvars, cvars, qvars, bvars>>

Merge ==
    /\ lCur' = merge(lCur)
    /\ lOp' = "merge"
    /\ lIn' = lCur
    /\ lArg' = "none"
    /\ lBundle' = <<>>
    /\ UNCHANGED <<gvars, cvars, qvars, bvars>>

Filter ==
    \E structure \in StructureNames :
        /\ lCur' = filter(lCur, structure)
        /\ lOp' = "filter"
        /\ lIn' = lCur
        /\ lArg' = structure
        /\ lBundle' = <<>>
        /\ UNCHANGED <<gvars, cvars, qvars, bvars>>

LayersNext ==
    OfScript \/ OfBundle \/ ToBundle \/ OfBundleOfToBundle \/ Remap \/ Merge \/ Filter

(***************************************************************************)
(* The queries areEqual and isEmpty: the calls a caller makes              *)
(***************************************************************************)
\* the layers of the aggregates compared: the second differs from the first
\* in the groups, the third in the selection
QueryLayers ==
    {[loci |-> [structure |-> "root", elements |-> {1}],      groups |-> FlagOne],
     [loci |-> [structure |-> "root", elements |-> {1}],      groups |-> BitOr(FlagOne, FlagTwo)],
     [loci |-> [structure |-> "root", elements |-> Elements], groups |-> FlagOne]}

\* the default descriptor and five that differ from it in one field each
QueryDescriptors ==
    {PlaneDescriptor,
     [PlaneDescriptor EXCEPT !.type = "sphere"],
     [PlaneDescriptor EXCEPT !.invert = TRUE],
     [PlaneDescriptor EXCEPT !.position = <<0, 1, 0>>],
     [PlaneDescriptor EXCEPT !.rotation = [axis |-> <<1, 0, 0>>, angle |-> 180]],
     [PlaneDescriptor EXCEPT !.scale = <<1, 1, 2>>]}

\* the clips of the aggregates compared: that of Clipping.Empty, one
\* descriptor compiled into fresh arrays, two descriptors compiled into
\* fresh arrays, and one compiled into the arrays that held those two
QueryClips ==
    {[variant |-> Empty.variant, objects |-> Empty.objects]}
    \cup {getClip([variant |-> "instance", objects |-> <<d>>], createClipObjects) :
             d \in QueryDescriptors}
    \cup {getClip([variant |-> "pixel", objects |-> <<PlaneDescriptor>>],
                  createClipObjects),
          getClip([variant |-> "instance",
                   objects |-> <<PlaneDescriptor, SphereDescriptor>>],
                  createClipObjects),
          getClip([variant |-> "instance", objects |-> <<PlaneDescriptor>>],
                  getClip([variant |-> "instance",
                           objects |-> <<PlaneDescriptor, SphereDescriptor>>],
                          createClipObjects).objects)}

QueryAggregates ==
    {[layers |-> l, variant |-> c.variant, objects |-> c.objects] :
        l \in SeqsUpTo(QueryLayers, MaxLayers), c \in QueryClips}

QueryInit ==
    /\ qOp = "init"
    /\ qA = Empty
    /\ qB = Empty
    /\ qRes = FALSE

\* a call of Clipping.areEqual(cA, cB)
AreEqual ==
    /\ qOp = "init"
    /\ \E cA \in QueryAggregates, cB \in QueryAggregates :
        /\ qOp' = "areEqual"
        /\ qA' = cA
        /\ qB' = cB
        /\ qRes' = areEqual(cA, cB)
        /\ UNCHANGED <<gvars, cvars, lvars, bvars>>

\* a call of Clipping.isEmpty(clipping)
IsEmpty ==
    /\ qOp = "init"
    /\ \E c \in QueryAggregates :
        /\ qOp' = "isEmpty"
        /\ qA' = c
        /\ qB' = Empty
        /\ qRes' = isEmpty(c)
        /\ UNCHANGED <<gvars, cvars, lvars, bvars>>

QueryNext == AreEqual \/ IsEmpty

(***************************************************************************)
(* PluginBehavior.simpleCommandHandler: one instance of the class it       *)
(* returns.  A subscription is the number of the register() call that      *)
(* created it; it is active from cmd.subscribe until its unsubscribe().    *)
(***************************************************************************)
\* the instance as constructed: sub = void 0, nothing subscribed
BehaviorInit ==
    /\ bSub = Undefined
    /\ bActive = {}
    /\ bCreated = 0
    /\ bOp = "init"

\* register(): this.sub = cmd.subscribe(...), whatever this.sub held
Register ==
    /\ bCreated < MaxRegister
    /\ bCreated' = bCreated + 1
    /\ bActive' = bActive \cup {bCreated + 1}
    /\ bSub' = bCreated + 1
    /\ bOp' = "register"
    /\ UNCHANGED <<gvars, cvars, lvars, qvars>>

\* unregister(): if (this.sub) this.sub.unsubscribe(); this.sub = void 0
Unregister ==
    /\ bActive' = IF bSub # Undefined THEN bActive \ {bSub} ELSE bActive
    /\ bSub' = Undefined
    /\ bOp' = "unregister"
    /\ UNCHANGED bCreated
    /\ UNCHANGED <<gvars, cvars, lvars, qvars>>

BehaviorNext == Register \/ Unregister

(***************************************************************************)
(* The specifications                                                      *)
(***************************************************************************)
Init == GroupsInit /\ ClipInit /\ LayersInit /\ QueryInit /\ BehaviorInit

Spec == Init /\ [][LayersNext]_vars

SpecGroups == Init /\ [][GroupsNext]_vars

SpecClip == Init /\ [][ClipNext]_vars

SpecQuery == Init /\ [][QueryNext]_vars

SpecBehavior == Init /\ [][BehaviorNext]_vars

(***************************************************************************)
(* Claims about the layer algebra                                          *)
(***************************************************************************)
InLayers == lIn.layers

OutLayers == lCur.layers

\* the elements of the i-th layer of a list
ElemsOf(layers, i) == layers[i].loci.elements

\* the elements of layer i that no later layer of the list has
ExclusiveElems(layers, i) ==
    ElemsOf(layers, i) \ UNION {ElemsOf(layers, j) : j \in (i + 1)..Len(layers)}

GroupsIn(layers) == {layers[i].groups : i \in 1..Len(layers)}

\* C1: Merge exclusivity: when the input has an earlier layer L1 with groups
\* A and its last layer L2 has groups B # A, and their element sets S1 and
\* S2 overlap, then in the output of merge the group-A selection has no
\* element of S1 \cap S2 and the group-B selection has every element of S2.
C1_MergeExclusivity ==
    lOp = "merge" =>
        \A i \in 1..Len(InLayers) :
            LET n  == Len(InLayers)
                A  == InLayers[i].groups
                B  == InLayers[n].groups
                S1 == ElemsOf(InLayers, i)
                S2 == ElemsOf(InLayers, n)
            IN  (i < n /\ A # B /\ S1 \cap S2 # {}) =>
                    /\ \A k \in 1..Len(OutLayers) :
                          OutLayers[k].groups = A =>
                              ElemsOf(OutLayers, k) \cap (S1 \cap S2) = {}
                    /\ \E k \in 1..Len(OutLayers) :
                          /\ OutLayers[k].groups = B
                          /\ S2 \subseteq ElemsOf(OutLayers, k)

\* merge has run on {One}: {1, 2} followed by {One, Two}: {2}, and has left
\* element 1 to {One}
C1_Witness ==
    /\ lOp = "merge"
    /\ Len(InLayers) = 2
    /\ InLayers[1].groups = FlagOne /\ ElemsOf(InLayers, 1) = {1, 2}
    /\ InLayers[2].groups = FlagOne + FlagTwo /\ ElemsOf(InLayers, 2) = {2}
    /\ Len(OutLayers) = 2
    /\ OutLayers[1].groups = FlagOne + FlagTwo /\ ElemsOf(OutLayers, 1) = {2}
    /\ OutLayers[2].groups = FlagOne /\ ElemsOf(OutLayers, 2) = {1}

\* C2 as claimed: Merge idempotence: areEqual(merge(merge(c)), merge(c)) for
\* every aggregate c.
C2_MergeIdempotent ==
    lOp = "merge" => areEqual(merge(lCur), lCur)

\* C2 amended: merge(merge(c)) has the layers of merge(c) (same groups,
\* loci-equal selections, same variant and objects) in reverse order, so
\* areEqual(merge(merge(c)), merge(c)) is true exactly when merge(c) has at
\* most one layer.
C2_SecondMergeReverses ==
    lOp = "merge" =>
        LET m2 == merge(lCur)
            n  == Len(OutLayers)
        IN  /\ Len(m2.layers) = n
            /\ \A k \in 1..n :
                  /\ m2.layers[k].groups = OutLayers[n + 1 - k].groups
                  /\ LociAreEqual(m2.layers[k].loci, OutLayers[n + 1 - k].loci)
            /\ m2.variant = lCur.variant
            /\ m2.objects = lCur.objects
            /\ areEqual(m2, lCur) <=> n <= 1

\* merge has returned two layers
C2_Witness ==
    /\ lOp = "merge"
    /\ Len(OutLayers) = 2
    /\ ~areEqual(merge(lCur), lCur)
    /\ merge(lCur).layers = <<OutLayers[2], OutLayers[1]>>

\* C3 as claimed: for an aggregate with at least one layer, the output of
\* merge has every groups value of the input layers, each on exactly one
\* output layer.
C3_AllGroupsOnce ==
    (lOp = "merge" /\ Len(InLayers) >= 1) =>
        /\ GroupsIn(OutLayers) = GroupsIn(InLayers)
        /\ \A k, m \in 1..Len(OutLayers) :
              OutLayers[k].groups = OutLayers[m].groups => k = m

\* C3 amended: the output of merge has exactly the groups values of those
\* input layers that have an element no later layer has, each on exactly
\* one output layer; a groups value whose layers are all empty or covered
\* by later layers does not occur in the output.
C3_UnshadowedGroupsOnce ==
    (lOp = "merge" /\ Len(InLayers) >= 1) =>
        /\ GroupsIn(OutLayers) =
              {InLayers[i].groups :
                  i \in {j \in 1..Len(InLayers) : ExclusiveElems(InLayers, j) # {}}}
        /\ \A k, m \in 1..Len(OutLayers) :
              OutLayers[k].groups = OutLayers[m].groups => k = m

\* merge has run on two layers of different groups, the first covered by the
\* second, and has returned one layer
C3_Witness ==
    /\ lOp = "merge"
    /\ Len(InLayers) = 2
    /\ InLayers[1].groups # InLayers[2].groups
    /\ ElemsOf(InLayers, 1) # {}
    /\ ElemsOf(InLayers, 1) \subseteq ElemsOf(InLayers, 2)
    /\ Len(OutLayers) = 1
    /\ OutLayers[1].groups = InLayers[2].groups

\* C4: Empty-layer elimination: no layer in the output of remap, of filter
\* or of merge has an empty selection.
C4_NoEmptyLayer ==
    lOp \in {"remap", "filter", "merge"} =>
        \A k \in 1..Len(OutLayers) : ~LociIsEmpty(OutLayers[k].loci)

\* remap has run on a layer list with an empty selection and one that the
\* target structure lacks, and has dropped both
C4_Witness ==
    /\ lOp = "remap"
    /\ lArg = "subA"
    /\ Len(InLayers) = 2
    /\ ElemsOf(InLayers, 1) = {}
    /\ ElemsOf(InLayers, 2) = {MaxElem}
    /\ OutLayers = <<>>

\* C5: Filter is a restriction: each layer of filter(c, sub) comes from an
\* input layer (in order), has that layer's groups, and its selection,
\* bound to the structure of the clipping, is a subset of that layer's.
C5_FilterRestricts ==
    (lOp = "filter" /\ Len(InLayers) >= 1) =>
        \E f \in [1..Len(OutLayers) -> 1..Len(InLayers)] :
            /\ \A k, m \in 1..Len(OutLayers) : k < m => f[k] < f[m]
            /\ \A k \in 1..Len(OutLayers) :
                  /\ OutLayers[k].groups = InLayers[f[k]].groups
                  /\ ElemsOf(OutLayers, k) \subseteq ElemsOf(InLayers, f[k])
                  /\ OutLayers[k].loci.structure = InLayers[1].loci.structure

\* filter by a substructure has dropped the first layer and narrowed the
\* second
C5_Witness ==
    /\ lOp = "filter"
    /\ lArg = "subB"
    /\ Len(InLayers) = 2
    /\ InLayers[1].loci.structure = "root"
    /\ ElemsOf(InLayers, 1) = {1}
    /\ ElemsOf(InLayers, 2) = Elements
    /\ Len(OutLayers) = 1
    /\ OutLayers[1].groups = InLayers[2].groups
    /\ ElemsOf(OutLayers, 1) = StructElems("subB")
    /\ OutLayers[1].loci.structure = "root"

\* the layers of the aggregate toBundle was applied to are all non-empty
InAllNonEmpty == \A i \in 1..Len(InLayers) : ~LociIsEmpty(InLayers[i].loci)

\* C6 as claimed: Bundle round-trip: for an aggregate c with N non-empty
\* layers, ofBundle(toBundle(c).layers, structure, c) has N layers, the i-th
\* with the groups of c's i-th layer and a selection loci-equal to it.
\* (Stated for the structure c's selections are bound to.)
C6_BundleRoundTrip ==
    (/\ lOp = "roundTrip"
     /\ InAllNonEmpty
     /\ \A i \in 1..Len(InLayers) : InLayers[i].loci.structure = lArg) =>
        /\ Len(OutLayers) = Len(InLayers)
        /\ \A i \in 1..Len(InLayers) :
              /\ OutLayers[i].groups = InLayers[i].groups
              /\ LociAreEqual(OutLayers[i].loci, InLayers[i].loci)

\* C6 amended: ofBundle(toBundle(c).layers, structure, c) has N layers, the
\* i-th with the groups of c's i-th layer and a selection bound to
\* structure.root that has those elements of c's i-th selection that
\* structure.root has; it is loci-equal to c's i-th selection when c's
\* selections are bound to structure.root.
C6_BundleRoundTripOnRoot ==
    (lOp = "roundTrip" /\ InAllNonEmpty) =>
        /\ Len(OutLayers) = Len(InLayers)
        /\ \A i \in 1..Len(InLayers) :
              /\ OutLayers[i].groups = InLayers[i].groups
              /\ OutLayers[i].loci.structure = StructRoot(lArg)
              /\ ElemsOf(OutLayers, i) =
                    ElemsOf(InLayers, i) \cap StructElems(StructRoot(lArg))
              /\ InLayers[i].loci.structure = StructRoot(lArg) =>
                    LociAreEqual(OutLayers[i].loci, InLayers[i].loci)

\* the round trip has run on two non-empty layers bound to the root, with a
\* substructure passed as structure
C6_Witness ==
    /\ lOp = "roundTrip"
    /\ lArg = "subA"
    /\ Len(InLayers) = 2
    /\ InAllNonEmpty
    /\ InLayers[1].loci.structure = "root"
    /\ ElemsOf(InLayers, 1) = Elements
    /\ OutLayers = InLayers

(***************************************************************************)
(* Claims about Clipping.Groups                                            *)
(***************************************************************************)

\* the flags of the recognised names that occur in a list, by the Names table
FlagsOfNames(names) ==
    {Names[names[i]] : i \in {j \in 1..Len(names) : isName(names[j])}}

\* C7: Group round-trip: for every x that is a bitwise-OR of a subset of the
\* flags One..Six, fromNames(toNames(x)) returns x.
C7_GroupRoundTrip ==
    gOp = "fromNames" =>
        \A x \in gSrc : gOut.kind = "return" /\ gOut.value = x

\* the round trip has run on a value with several flags, Six among them
C7_Witness ==
    /\ gOp = "fromNames"
    /\ gSrc = {FlagOne + FlagThree + FlagSix}
    /\ gNames = <<"one", "three", "six">>
    /\ gOut.value = FlagOne + FlagThree + FlagSix

Max(a, b) == IF a >= b THEN a ELSE b

\* the objects the last call returned
ResObjects == ObjectsOf(cRes, heap)

\* two objects records agree in count and in every slot below count
SameActiveSlots(oA, oB) ==
    /\ oA.count = oB.count
    /\ \A i \in 0..(oA.count - 1) :
          /\ oA.type[i + 1] = oB.type[i + 1]
          /\ oA.invert[i + 1] = oB.invert[i + 1]
          /\ Vec3fromArray(oA.position, i * 3) = Vec3fromArray(oB.position, i * 3)
          /\ QuatFromArray(oA.rotation, i * 4) = QuatFromArray(oB.rotation, i * 4)
          /\ Vec3fromArray(oA.scale, i * 3) = Vec3fromArray(oB.scale, i * 3)

\* C8: Compile with reuse equals compile fresh: for a list p of at most 5
\* descriptors and a previously compiled clip s, getClip(p, s) has the same
\* variant, the same count and the same type, invert, position, rotation
\* and scale in every slot below count as getClip(p).
C8_ReuseEqualsFresh ==
    (cOp = "getClip" /\ cArg.mode = "reuse" /\ Len(cProps.objects) <= NMax) =>
        LET fresh == getClip(cProps, createClipObjects) IN
        /\ cRes.variant = fresh.variant
        /\ SameActiveSlots(ResObjects, fresh.objects)

\* a list of planes has been compiled into arrays that held spheres in more
\* slots, so the slots past count still hold the spheres
C8_Witness ==
    /\ cOp = "getClip" /\ cArg.mode = "reuse"
    /\ cArg.clip.count = NMax
    /\ cProps.objects = <<PlaneDescriptor, PlaneDescriptor>>
    /\ ResObjects.count = 2
    /\ ResObjects.invert = <<FALSE, FALSE, TRUE, TRUE, TRUE>>
    /\ ResObjects.type = <<1, 1, 2, 2, 2>>

EmptyObjects ==
    ObjectsOf([variant |-> Empty.variant, count |-> Empty.objects.count,
               ref |-> EmptyRef], heap)

\* C11 as claimed: Clipping.Empty is constant: in every state reachable by
\* calls of getClip (calls that are passed Clipping.Empty included) it has
\* zero layers, variant 'pixel', and objects with count 0, every type entry
\* 1 (plane), every invert entry false, every position and rotation entry 0
\* and every scale entry 1.
C11_EmptyIsConstant ==
    /\ Empty.layers = <<>>
    /\ Empty.variant = "pixel"
    /\ EmptyObjects.count = 0
    /\ \A i \in 1..Len(EmptyObjects.type) : EmptyObjects.type[i] = Type.plane
    /\ \A i \in 1..Len(EmptyObjects.invert) : EmptyObjects.invert[i] = FALSE
    /\ \A i \in 1..Len(EmptyObjects.position) : EmptyObjects.position[i] = 0
    /\ \A i \in 1..Len(EmptyObjects.rotation) : EmptyObjects.rotation[i] = 0
    /\ \A i \in 1..Len(EmptyObjects.scale) : EmptyObjects.scale[i] = 1

\* C16: Scenario: compiling the single descriptor {plane, invert=false,
\* position (0,0,0), axis (1,0,0), angle 0, scale (1,1,1)} with getClip and
\* no previous clip yields count = 1, type = [1,1,1,1,1], and rotation slots
\* 0..3 equal to (0,0,0,1), the identity quaternion.
C16_DefaultPlaneCompiled ==
    (/\ cOp = "getClip"
     /\ cArg.mode = "fresh"
     /\ cProps.objects =
           <<[type |-> "plane", invert |-> FALSE, position |-> <<0, 0, 0>>,
              rotation |-> [axis |-> <<1, 0, 0>>, angle |-> 0],
              scale |-> <<1, 1, 1>>]>>) =>
        /\ ResObjects.count = 1
        /\ ResObjects.type = <<1, 1, 1, 1, 1>>
        /\ ResObjects.rotation[1] = 0
        /\ ResObjects.rotation[2] = 0
        /\ ResObjects.rotation[3] = 0
        /\ ResObjects.rotation[4] = 1

\* the default plane alone has been compiled into fresh arrays
C16_Witness ==
    /\ cOp = "getClip"
    /\ cArg.mode = "fresh"
    /\ cProps.objects = <<PlaneDescriptor>>
    /\ cRes.ref = FreshRef
    /\ ResObjects.count = 1
    /\ ResObjects.type = <<1, 1, 1, 1, 1>>
    /\ QuatFromArray(ResObjects.rotation, 0) = <<0, 0, 0, 1>>

(***************************************************************************)
(* Claims about areEqual and isEmpty                                       *)
(***************************************************************************)
\* slot i (0-based) of an objects record
SlotOf(o, i) ==
    [type     |-> o.type[i + 1],
     invert   |-> o.invert[i + 1],
     position |-> <<o.position[3 * i + 1], o.position[3 * i + 2], o.position[3 * i + 3]>>,
     scale    |-> <<o.scale[3 * i + 1], o.scale[3 * i + 2], o.scale[3 * i + 3]>>,
     rotation |-> <<o.rotation[4 * i + 1], o.rotation[4 * i + 2],
                    o.rotation[4 * i + 3], o.rotation[4 * i + 4]>>]

\* an aggregate with every slot at index >= count overwritten by one value
WithInactiveSlots(c, v) ==
    [c EXCEPT
        !.objects.type     = [k \in 1..Len(@) |-> IF k > c.objects.count THEN v ELSE @[k]],
        !.objects.invert   = [k \in 1..Len(@) |-> IF k > c.objects.count THEN v = 0 ELSE @[k]],
        !.objects.position = [k \in 1..Len(@) |-> IF k > 3 * c.objects.count THEN v ELSE @[k]],
        !.objects.scale    = [k \in 1..Len(@) |-> IF k > 3 * c.objects.count THEN v ELSE @[k]],
        !.objects.rotation = [k \in 1..Len(@) |-> IF k > 4 * c.objects.count THEN v ELSE @[k]]]

\* C12: areEqual(cA, cB) is true exactly when the two aggregates have the
\* same number of layers, the same groups and loci-equal selection at every
\* layer index, the same variant, the same objects.count, and for every slot
\* i below count the same type, invert, position, scale and rotation; values
\* stored in slots at index >= count never affect the result.
C12_AreEqualExact ==
    qOp = "areEqual" =>
        /\ qRes <=>
              /\ Len(qA.layers) = Len(qB.layers)
              /\ \A i \in 1..Len(qA.layers) :
                    i <= Len(qB.layers) =>
                        /\ qA.layers[i].groups = qB.layers[i].groups
                        /\ LociAreEqual(qA.layers[i].loci, qB.layers[i].loci)
              /\ qA.variant = qB.variant
              /\ qA.objects.count = qB.objects.count
              /\ \A i \in 0..(qA.objects.count - 1) :
                    i < qB.objects.count =>
                        SlotOf(qA.objects, i) = SlotOf(qB.objects, i)
        /\ areEqual(WithInactiveSlots(qA, 0), WithInactiveSlots(qB, 7)) = qRes

\* areEqual has returned true for two aggregates of two layers whose objects
\* differ in a slot past count, and only there
C12_Witness ==
    /\ qOp = "areEqual"
    /\ qRes = TRUE
    /\ Len(qA.layers) = 2
    /\ qA.objects.count = 1
    /\ qA.objects # qB.objects
    /\ SlotOf(qA.objects, 1) # SlotOf(qB.objects, 1)

\* C13: isEmpty depends only on the layer list: isEmpty(Clipping.Empty) is
\* true, and for every aggregate with at least one layer isEmpty is false,
\* whatever the value of objects.count; an aggregate with zero layers and
\* objects.count > 0 is reported empty.
C13_IsEmptyByLayers ==
    qOp = "isEmpty" =>
        /\ qA = Empty => qRes = TRUE
        /\ Len(qA.layers) >= 1 => qRes = FALSE
        /\ (Len(qA.layers) = 0 /\ qA.objects.count > 0) => qRes = TRUE

\* isEmpty has returned true for an aggregate with no layer and two clip
\* objects
C13_Witness ==
    /\ qOp = "isEmpty"
    /\ qA.layers = <<>>
    /\ qA.objects.count = 2
    /\ qRes = TRUE

(***************************************************************************)
(* Further claims about the layer algebra                                  *)
(***************************************************************************)
\* C14: Frame of the layer algebra: merge, remap and filter never modify the
\* input aggregate's layer list or any input layer's selection or groups,
\* and the aggregate they return has the same variant and the same objects
\* as the input.  (lIn is the input as it is after the call, lCur before the
\* step is the aggregate that was passed.)
C14_LayerAlgebraFrame ==
    [][lOp' \in {"merge", "remap", "filter"} =>
          /\ lIn' = lCur
          /\ lCur'.variant = lCur.variant
          /\ lCur'.objects = lCur.objects]_vars

\* merge has returned other layers than it was given, with the variant and
\* the one clip object of its input
C14_Witness ==
    /\ lOp = "merge"
    /\ Len(InLayers) = 2
    /\ OutLayers # InLayers
    /\ lIn.variant = "instance"
    /\ lIn.objects.count = 1
    /\ lCur.variant = lIn.variant
    /\ lCur.objects = lIn.objects

\* C15: Scenario: merging an aggregate of exactly two layers, the first with
\* groups {One} and the second with groups {One,Two}, both covering the same
\* non-empty element set, yields exactly one output layer; its groups value
\* is {One,Two} and its selection is the whole element set.
C15_SameSetLaterGroupsWin ==
    (/\ lOp = "merge"
     /\ Len(InLayers) = 2
     /\ InLayers[1].groups = FlagOne
     /\ InLayers[2].groups = FlagOne + FlagTwo
     /\ ElemsOf(InLayers, 1) = ElemsOf(InLayers, 2)
     /\ ElemsOf(InLayers, 1) # {}) =>
        /\ Len(OutLayers) = 1
        /\ OutLayers[1].groups = FlagOne + FlagTwo
        /\ ElemsOf(OutLayers, 1) = ElemsOf(InLayers, 1)

\* merge has run on {One} and {One,Two}, both covering every element
C15_Witness ==
    /\ lOp = "merge"
    /\ Len(InLayers) = 2
    /\ InLayers[1].groups = FlagOne
    /\ InLayers[2].groups = FlagOne + FlagTwo
    /\ ElemsOf(InLayers, 1) = Elements
    /\ ElemsOf(InLayers, 2) = Elements
    /\ Len(OutLayers) = 1

\* C17: ofBundle and toBundle are one-to-one and order preserving: for every
\* input list of length n the output has exactly n entries, the i-th output
\* entry carries the groups of the i-th input entry, and ofBundle keeps an
\* entry even when its bundle resolves to an empty selection.
C17_BundleOneToOne ==
    /\ lOp \in {"ofBundle", "roundTrip"} =>
          /\ Len(OutLayers) = Len(lBundle)
          /\ \A i \in 1..Len(lBundle) :
                /\ OutLayers[i].groups = lBundle[i].groups
                /\ ElemsOf(OutLayers, i) =
                      lBundle[i].bundle.elements \cap StructElems(OutLayers[i].loci.structure)
    /\ lOp = "toBundle" =>
          /\ Len(lBundle) = Len(InLayers)
          /\ \A i \in 1..Len(InLayers) :
                /\ lBundle[i].groups = InLayers[i].groups
                /\ lBundle[i].bundle.elements = ElemsOf(InLayers, i)

\* ofBundle has kept a layer for a bundle with no element and one for a
\* bundle whose only element the root structure lacks
C17_Witness ==
    /\ lOp = "ofBundle"
    /\ lArg = "rev"
    /\ Len(lBundle) = 2
    /\ lBundle[1].bundle.elements = {}
    /\ lBundle[2].bundle.elements = {1}
    /\ lBundle[1].groups # lBundle[2].groups
    /\ Len(OutLayers) = 2
    /\ LociIsEmpty(OutLayers[1].loci)
    /\ LociIsEmpty(OutLayers[2].loci)

\* C18: After merge, the selections of any two distinct output layers are
\* disjoint: no structural element belongs to the selection of more than
\* one output layer.
C18_MergeDisjoint ==
    lOp = "merge" =>
        \A k, m \in 1..Len(OutLayers) :
            k # m => ElemsOf(OutLayers, k) \cap ElemsOf(OutLayers, m) = {}

\* merge has run on two overlapping layers of different groups and has
\* returned two layers
C18_Witness ==
    /\ lOp = "merge"
    /\ Len(InLayers) = 2
    /\ InLayers[1].groups = FlagOne + FlagTwo /\ ElemsOf(InLayers, 1) = Elements
    /\ InLayers[2].groups = FlagOne /\ ElemsOf(InLayers, 2) = {1}
    /\ Len(OutLayers) = 2
    /\ ElemsOf(OutLayers, 1) = {1}
    /\ ElemsOf(OutLayers, 2) = Elements \ {1}

\* the indices of the input layers whose selection remapped onto structure s
\* is not empty
Surviving(layers, s) ==
    {i \in 1..Len(layers) : layers[i].loci.elements \cap StructElems(s) # {}}

\* C19: remap keeps order and identity of surviving layers: the output of
\* remap(c, s) is exactly the sequence, in input order and with unchanged
\* groups, of those input layers whose selection remapped onto s is
\* non-empty, each carrying the remapped selection.
C19_RemapKeepsOrder ==
    lOp = "remap" =>
        /\ Len(OutLayers) = Cardinality(Surviving(InLayers, lArg))
        /\ \E f \in [1..Len(OutLayers) -> Surviving(InLayers, lArg)] :
              /\ \A k, m \in 1..Len(OutLayers) : k < m => f[k] < f[m]
              /\ \A k \in 1..Len(OutLayers) :
                    /\ OutLayers[k].groups = InLayers[f[k]].groups
                    /\ OutLayers[k].loci.structure = lArg
                    /\ ElemsOf(OutLayers, k) =
                          ElemsOf(InLayers, f[k]) \cap StructElems(lArg)

\* remap onto a substructure has kept two layers of different groups in
\* their order and narrowed the second
C19_Witness ==
    /\ lOp = "remap"
    /\ lArg = "subA"
    /\ Len(InLayers) = 2
    /\ InLayers[1].groups # InLayers[2].groups
    /\ ElemsOf(InLayers, 2) = Elements
    /\ Len(OutLayers) = 2
    /\ OutLayers[1].groups = InLayers[1].groups
    /\ OutLayers[2].groups = InLayers[2].groups
    /\ ElemsOf(OutLayers, 2) = StructElems("subA")

\* the highest index of an input layer with groups g that has an element no
\* later layer has
LastExclusive(layers, g) ==
    LET S == {i \in 1..Len(layers) :
                layers[i].groups = g /\ ExclusiveElems(layers, i) # {}}
    IN  CHOOSE i \in S : \A j \in S : j <= i

Coverage(layers) == UNION {ElemsOf(layers, i) : i \in 1..Len(layers)}

\* C21: Merge preserves coverage: for every aggregate whose layers are
\* selections on the same structure, the union of the selections of all
\* output layers of merge equals the union of the selections of all input
\* layers.
C21_MergeKeepsCoverage ==
    (/\ lOp = "merge"
     /\ \A i, j \in 1..Len(InLayers) :
           InLayers[i].loci.structure = InLayers[j].loci.structure) =>
        Coverage(OutLayers) = Coverage(InLayers)

\* merge has run on two layers of the same groups with different elements
\* and has returned one layer with the elements of both
C21_Witness ==
    /\ lOp = "merge"
    /\ Len(InLayers) = 2
    /\ InLayers[1].groups = InLayers[2].groups
    /\ InLayers[1].loci.structure = InLayers[2].loci.structure
    /\ ElemsOf(InLayers, 1) = {1}
    /\ ElemsOf(InLayers, 2) = Elements \ {1}
    /\ Len(OutLayers) = 1
    /\ ElemsOf(OutLayers, 1) = Elements

(***************************************************************************)
(* Further claims about getClip                                            *)
(***************************************************************************)
\* the objects of the clip s that was passed to the last call, as they are
\* after the call
PassedObjects == ObjectsOf(cArg.clip, heap)

\* what a descriptor says a slot holds
SlotOfDescriptor(p) ==
    [type     |-> Type[p.type],
     invert   |-> p.invert,
     position |-> p.position,
     scale    |-> p.scale,
     rotation |-> setAxisAngle(p.rotation.axis, degToRad(p.rotation.angle))]

\* C22: Aliasing under reuse: when getClip(p, s) is called with a previous
\* clip s, the returned objects record is a new record that shares its
\* type, invert, position, rotation and scale arrays with s.objects;
\* s.objects.count keeps its old value, while every slot below the number
\* of descriptors in p now holds p's values in s as well.
C22_ReuseAliases ==
    [][(cOp' = "getClip" /\ cArg'.mode = "reuse") =>
          /\ cArg'.clip = cRes
          /\ cRes'.ref = cRes.ref
          /\ ArraysOf(ObjectsOf(cRes', heap')) = ArraysOf(ObjectsOf(cRes, heap'))
          /\ ObjectsOf(cRes, heap').count = ObjectsOf(cRes, heap).count
          /\ ObjectsOf(cRes', heap').count = Len(cProps'.objects)
          /\ \A i \in 0..(Len(cProps'.objects) - 1) :
                SlotOf(ObjectsOf(cRes, heap'), i) =
                    SlotOfDescriptor(cProps'.objects[i + 1])]_vars

\* a clip compiled from two spheres has been passed to getClip with one
\* plane: it still has count 2, and its slot 0 now holds the plane
C22_Witness ==
    /\ cOp = "getClip" /\ cArg.mode = "reuse"
    /\ cArg.clip.count = 2
    /\ cProps.objects = <<PlaneDescriptor>>
    /\ cRes.count = 1
    /\ cRes.ref = cArg.clip.ref
    /\ PassedObjects.count = 2
    /\ SlotOf(PassedObjects, 0) = SlotOfDescriptor(PlaneDescriptor)
    /\ SlotOf(PassedObjects, 1) = SlotOfDescriptor(SphereDescriptor)

(***************************************************************************)
(* Claims about the command handler behavior                               *)
(***************************************************************************)
\* C23 as claimed: for a behavior instance built by simpleCommandHandler,
\* after any sequence of register() and unregister() calls that ends with
\* unregister(), no command subscription created by that instance's
\* register() calls is still active and its sub field is undefined.
C23_UnregisterReleasesAll ==
    bOp = "unregister" => (bActive = {} /\ bSub = Undefined)

====
